---- MODULE Spec2Model ----
(***************************************************************************)
(* AudioService (services/audioService.ts): microphone capture, per-frame  *)
(* feature extraction, mood classification and the listener registry, as   *)
(* a state machine over the JavaScript event loop.                         *)
(*                                                                         *)
(* One JavaScript task runs to completion before the next starts.  The     *)
(* only place where foreign code runs inside a task of the service is      *)
(* notifyListeners: each listener invocation is one step (Deliver), and    *)
(* while a forEach is in progress (pc = "notify") no other task runs.      *)
(*                                                                         *)
(* Numbers: magnitudes are bytes 0..255; the sensitivity is kept in tenths *)
(* (8 = 0.8); every feature is an exact fraction [n, d].                   *)
(***************************************************************************)
EXTENDS Integers, Sequences, FiniteSets, TLC

\* ---------------------------------------------------------------- bounds
MaxOps == 5        \* calls of the service's public methods in one behaviour
MaxFrames == 2     \* animation frames in one behaviour

\* ------------------------------------------------------------- constants
moodChangeThreshold == 100   \* ms
noiseFloorPct == 3           \* noiseFloor = 0.03, in hundredths
defaultSensitivity == 8      \* moodDetection.defaultSensitivity = 0.8, in tenths

Callbacks == {"f", "g"}
MoodType == {"happy", "energetic", "calm", "melancholic"}

\* Spectral frames the analyser may hand out (getByteFrequencyData), and the
\* readings Date.now() may return.
Frames == {<<0, 0>>, <<255, 0>>, <<60, 60>>}
ClockReadings == {1000, 1050, 1200}
\* Arguments of setSensitivity, in tenths.
SensitivityInputs == {-5, 15}

\* ----------------------------------------------------- numeric helpers
Max(a, b) == IF a >= b THEN a ELSE b
Min(a, b) == IF a <= b THEN a ELSE b

RECURSIVE SumUpTo(_, _)
SumUpTo(s, k) == IF k = 0 THEN 0 ELSE SumUpTo(s, k - 1) + s[k]

\* a fraction x = [n, d] against the literal a/b
FracLt(x, a, b) == x.n * b < a * x.d
FracGt(x, a, b) == x.n * b > a * x.d

\* ------------------------------------------------ extractAudioFeatures
\* (variant: the gain attenuates)
Energy_Attenuated(dataArray, g) ==
    LET bufferLength == Len(dataArray)
        sum == SumUpTo(dataArray, bufferLength)
        d == bufferLength * 255 * 100 * 10
        gated == Max(0, sum * 100 - noiseFloorPct * bufferLength * 255)
    IN  [n |-> Min(d, gated * 2 * (10 - g)), d |-> d]

\* (variant: a noise floor of 0.05)
Energy_HigherFloor(dataArray, g) ==
    LET bufferLength == Len(dataArray)
        sum == SumUpTo(dataArray, bufferLength)
        d == bufferLength * 255 * 100 * 10
        gated == Max(0, sum * 100 - 5 * bufferLength * 255)
    IN  [n |-> Min(d, gated * 2 * g), d |-> d]

\* (variant: the noise gate does not stop at 0)
Energy_NoGate(dataArray, g) ==
    LET bufferLength == Len(dataArray)
        sum == SumUpTo(dataArray, bufferLength)
        d == bufferLength * 255 * 100 * 10
        gated == sum * 100 - noiseFloorPct * bufferLength * 255
    IN  [n |-> Min(d, gated * 2 * g), d |-> d]

\* energy = min(1, max(0, sum / (bufferLength * 255) - noiseFloor) * 2.0 * sensitivity)
Energy(dataArray, g) ==
    LET bufferLength == Len(dataArray)
        sum == SumUpTo(dataArray, bufferLength)
        d == bufferLength * 255 * 100 * 10
        gated == Max(0, sum * 100 - noiseFloorPct * bufferLength * 255)
    IN  [n |-> Min(d, gated * 2 * g), d |-> d]

\* (variant: 128 counts as positive)
Sign_AtLeast(v) == IF v >= 128 THEN 1 ELSE -1

\* sign of a bin: 1 when the raw byte is > 128, else -1
Sign(v) == IF v > 128 THEN 1 ELSE -1

Zcr(dataArray) ==
    LET bufferLength == Len(dataArray)
    IN  [n |-> Cardinality({i \in 2..bufferLength :
                               Sign(dataArray[i - 1]) # Sign(dataArray[i])}),
         d |-> bufferLength]

\* spectralCentroid = (sum i*a_i / sum a_i) / bufferLength, 0 when sum a_i = 0
\* (bin i of the code is element i + 1 of the sequence)
RECURSIVE WeightedSum_OneBased(_, _)
WeightedSum_OneBased(s, k) ==
    IF k = 0 THEN 0 ELSE WeightedSum_OneBased(s, k - 1) + k * s[k]

RECURSIVE WeightedSum(_, _)
WeightedSum(s, k) == IF k = 0 THEN 0 ELSE WeightedSum(s, k - 1) + (k - 1) * s[k]

SpectralCentroid(dataArray) ==
    LET bufferLength == Len(dataArray)
        denominator == SumUpTo(dataArray, bufferLength)
    IN  IF denominator = 0 THEN [n |-> 0, d |-> 1]
        ELSE [n |-> WeightedSum(dataArray, bufferLength), d |-> denominator * bufferLength]

\* spectralFlatness = geometric mean / arithmetic mean over the bins with
\* value / 255 > 0.01.  The value is irrational in general; it is kept as
\* the count, the values and the sum of the qualifying raw bytes, from which
\* every comparison is exact.
Qualifying(dataArray) == SelectSeq(dataArray, LAMBDA v : v * 100 > 255)

SpectralFlatness(dataArray) ==
    LET vals == Qualifying(dataArray)
    IN  [cnt |-> Len(vals), vals |-> vals, sum |-> SumUpTo(vals, Len(vals))]

\* Naturals beyond 32 bits, for the powers below: the digits in base 10000,
\* lowest first.  BigTimes(x, k, carry) = x * k + carry.
RECURSIVE BigTimes(_, _, _)
BigTimes(x, k, carry) ==
    IF x = <<>>
    THEN IF carry = 0 THEN <<>>
         ELSE <<carry % 10000>> \o BigTimes(<<>>, k, carry \div 10000)
    ELSE LET t == Head(x) * k + carry
         IN  <<t % 10000>> \o BigTimes(Tail(x), k, t \div 10000)

\* the product of the positive factors s[1] .. s[k]
RECURSIVE BigProduct(_, _)
BigProduct(s, k) == IF k = 0 THEN <<1>> ELSE BigTimes(BigProduct(s, k - 1), s[k], 0)

BigGt(x, y) ==
    \/ Len(x) > Len(y)
    \/ /\ Len(x) = Len(y)
       /\ \E i \in 1..Len(x) : x[i] > y[i] /\ \A j \in (i + 1)..Len(x) : x[j] = y[j]

\* flatness > a/b:  GM > (a/b) AM  <=>  prod (b * cnt * v_i) > (a * sum)^cnt
FlatnessGt(fl, a, b) ==
    /\ fl.cnt > 0
    /\ BigGt(BigProduct([i \in 1..fl.cnt |-> b * fl.cnt * fl.vals[i]], fl.cnt),
             BigProduct([i \in 1..fl.cnt |-> a * fl.sum], fl.cnt))

\* (variant: the threshold is 15% of the total)
SpectralRolloff_LowThreshold(dataArray) ==
    LET bufferLength == Len(dataArray)
        totalEnergy == SumUpTo(dataArray, bufferLength)
        hit == {i \in 1..bufferLength :
                   totalEnergy # 0 /\ SumUpTo(dataArray, i) * 100 >= 15 * totalEnergy}
    IN  IF hit = {} THEN [n |-> 0, d |-> bufferLength]
        ELSE [n |-> (CHOOSE i \in hit : \A j \in hit : i <= j) - 1, d |-> bufferLength]

\* (variant: the bins are counted from 1)
SpectralRolloff_OneBased(dataArray) ==
    LET bufferLength == Len(dataArray)
        totalEnergy == SumUpTo(dataArray, bufferLength)
        hit == {i \in 1..bufferLength :
                   totalEnergy # 0 /\ SumUpTo(dataArray, i) * 100 >= 85 * totalEnergy}
    IN  IF hit = {} THEN [n |-> 0, d |-> bufferLength]
        ELSE [n |-> CHOOSE i \in hit : \A j \in hit : i <= j, d |-> bufferLength]

\* spectralRolloff = i / bufferLength for the first bin i whose cumulative
\* sum reaches 85% of the total; 0 when no bin does (total 0: NaN >= 0.85 is false)
SpectralRolloff(dataArray) ==
    LET bufferLength == Len(dataArray)
        totalEnergy == SumUpTo(dataArray, bufferLength)
        hit == {i \in 1..bufferLength :
                   totalEnergy # 0 /\ SumUpTo(dataArray, i) * 100 >= 85 * totalEnergy}
    IN  IF hit = {} THEN [n |-> 0, d |-> bufferLength]
        ELSE [n |-> (CHOOSE i \in hit : \A j \in hit : i <= j) - 1, d |-> bufferLength]

\* rms = sqrt(sum (a_i)^2 / bufferLength): kept as its square
RECURSIVE SumSq(_, _)
SumSq(s, k) == IF k = 0 THEN 0 ELSE SumSq(s, k - 1) + s[k] * s[k]

RmsSquared(dataArray) ==
    [n |-> SumSq(dataArray, Len(dataArray)), d |-> 255 * 255 * Len(dataArray)]

extractAudioFeatures(dataArray, g) ==
    [energy |-> Energy(dataArray, g),
     rmsSquared |-> RmsSquared(dataArray),
     zcr |-> Zcr(dataArray),
     spectralCentroid |-> SpectralCentroid(dataArray),
     spectralFlatness |-> SpectralFlatness(dataArray),
     spectralRolloff |-> SpectralRolloff(dataArray)]

\* ---------------------------------------------------------- detectMood
\* (variant: the rule of happy is tried before the rule of energetic)
DetectedMood_HappyFirst(features, mood) ==
    IF FracLt(features.energy, 3, 100) THEN mood
    ELSE IF FracGt(features.energy, 2, 10) /\ FracGt(features.spectralCentroid, 3, 10)
         THEN "happy"
    ELSE IF FracGt(features.energy, 3, 10) /\ FracGt(features.zcr, 2, 10) THEN "energetic"
    ELSE IF FlatnessGt(features.spectralFlatness, 3, 20) /\ FracLt(features.energy, 15, 100)
         THEN "melancholic"
    ELSE "calm"

\* (variant: silence falls through to the default mood)
DetectedMood_SilenceIsCalm(features, mood) ==
    IF FracGt(features.energy, 3, 10) /\ FracGt(features.zcr, 2, 10) THEN "energetic"
    ELSE IF FracGt(features.energy, 2, 10) /\ FracGt(features.spectralCentroid, 3, 10)
         THEN "happy"
    ELSE IF FlatnessGt(features.spectralFlatness, 3, 20) /\ FracLt(features.energy, 15, 100)
         THEN "melancholic"
    ELSE "calm"

\* the candidate mood of the priority table (0.15 is written 3/20 for the
\* flatness, whose comparison raises to a power)
DetectedMood(features, mood) ==
    IF FracLt(features.energy, 3, 100) THEN mood
    ELSE IF FracGt(features.energy, 3, 10) /\ FracGt(features.zcr, 2, 10) THEN "energetic"
    ELSE IF FracGt(features.energy, 2, 10) /\ FracGt(features.spectralCentroid, 3, 10)
         THEN "happy"
    ELSE IF FlatnessGt(features.spectralFlatness, 3, 20) /\ FracLt(features.energy, 15, 100)
         THEN "melancholic"
    ELSE "calm"

\* (variant: the comparison with the threshold is not strict)
Debounced_NotStrict(detectedMood, mood, time, now) ==
    IF detectedMood # mood /\ now - time >= moodChangeThreshold
    THEN [mood |-> detectedMood, time |-> now]
    ELSE [mood |-> mood, time |-> time]

\* (variant: every candidate change is committed)
Debounced_NoThreshold(detectedMood, mood, time, now) ==
    IF detectedMood # mood
    THEN [mood |-> detectedMood, time |-> now]
    ELSE [mood |-> mood, time |-> time]

\* the debounce: the classifier state [mood, time] after one frame read at `now`
Debounced(detectedMood, mood, time, now) ==
    IF detectedMood # mood /\ now - time > moodChangeThreshold
    THEN [mood |-> detectedMood, time |-> now]
    ELSE [mood |-> mood, time |-> time]

detectMood(features, mood, time, now) ==
    Debounced(DetectedMood(features, mood), mood, time, now)

\* (variant: the candidate is returned)
MoodReturned_Candidate(classifier, detectedMood) ==
    [mood |-> detectedMood, confidence |-> [n |-> 1, d |-> 1]]

\* what detectMood returns: this.currentMood as the debounce left it, and
\* the confidence 1.0
MoodReturned(classifier, detectedMood) ==
    [mood |-> classifier.mood, confidence |-> [n |-> 1, d |-> 1]]

\* ------------------------------------------------------ setSensitivity
\* (variant: no lower bound)
Clamp01_NoLowerBound(value) == Min(10, value)

Clamp01(value) == Max(0, Min(10, value))

\* -------------------------------------------- calculateDominantFrequency
\* analyser.fftSize is twice analyser.frequencyBinCount, the length of a frame
FftSize(dataArray) == 2 * Len(dataArray)

\* (variant: a bin equal to the maximum replaces it)
RECURSIVE MaxScan_LastWins(_, _)
MaxScan_LastWins(dataArray, k) ==
    IF k = 0 THEN [maxIndex |-> 0, maxValue |-> 0]
    ELSE LET m == MaxScan_LastWins(dataArray, k - 1)
         IN  IF dataArray[k] >= m.maxValue
             THEN [maxIndex |-> k - 1, maxValue |-> dataArray[k]]
             ELSE m

\* the linear scan over bins 0 .. k - 1: a bin replaces the maximum only when
\* it is strictly greater
RECURSIVE MaxScan(_, _)
MaxScan(dataArray, k) ==
    IF k = 0 THEN [maxIndex |-> 0, maxValue |-> 0]
    ELSE LET m == MaxScan(dataArray, k - 1)
         IN  IF dataArray[k] > m.maxValue
             THEN [maxIndex |-> k - 1, maxValue |-> dataArray[k]]
             ELSE m

\* an, ctx: this.analyzer, this.audioContext (0 is null); dataArray: the
\* frame the function reads; the result is a fraction, in Hz
calculateDominantFrequency(an, ctx, dataArray, sampleRate) ==
    IF an = 0 \/ ctx = 0 THEN [n |-> 0, d |-> 1]
    ELSE [n |-> MaxScan(dataArray, Len(dataArray)).maxIndex * sampleRate,
          d |-> FftSize(dataArray) * 2]

\* --------------------------------------------------------------- state
VARIABLES
    \* fields of AudioService
    isInitialized, stream, audioContext, analyzer, sensitivity, listeners,
    currentMood, moodChangeTime,
    \* the platform: media tracks that are live, audio contexts that are open
    tracksLive, ctxOpen,
    \* the event loop: initialize() calls suspended at `await getUserMedia`,
    \* analyzeAudio callbacks queued by requestAnimationFrame for the next
    \* animation frame, and those of the current frame still to run
    awaiting, rafPending, rafRunning,
    \* the task in progress.  pc: "idle", "notify" (inside notifyListeners'
    \* forEach) or "thrown" (an exception is leaving the task); task: "init"
    \* (the first analyzeAudio() call, inside initialize's try block) or "raf"
    \* (an animation-frame callback).  The forEach: the array object it
    \* iterates, the length read when it began, the next index, and whether
    \* this.listeners still is that array object
    pc, task, iterArr, iterLen, iterIdx, iterShared,
    \* the subscribe() calls made so far: regs[h] is the callback passed to
    \* call h, whose unsubscribe handle has been invoked calls[h] times
    regs, calls,
    \* observers of the publish in progress: the registrations that were in
    \* this.listeners when it began, and those invoked so far
    snap, got,
    \* observers of the session: stop() has returned and initialize() was not
    \* called since; isInitialized was set at least once; results produced in
    \* the current animation frame
    stopReturned, succeeded, produced,
    \* counters: public-method calls, getUserMedia grants, animation frames
    ops, grants, frame,
    \* observers of the calls: the argument of the last setSensitivity call
    \* (<<>> before the first), what the last initialize() call to return has
    \* returned ("none" before the first), and the last run of analyzeAudio
    \* recorded by AnalyzeFrame: the classifier state it started from, its
    \* inputs, the candidate mood, the result it published and the
    \* registrations it was delivered to (<<>> before the first)
    lastValue, returned, analysis,
    \* the visualizer page: whether the component is mounted; the position
    \* of its initAudio ("none", "awaiting" at `await audioService.initialize()`,
    \* "done"); its React state isInitialized, sensitivity (in tenths) and
    \* error (audioData is not carried); the registration its subscribe() call
    \* made (0: none); and whether it was unmounted ("no", "early": before its
    \* isInitialized was set, "after")
    page

service == <<isInitialized, stream, audioContext, analyzer, sensitivity, listeners,
             currentMood, moodChangeTime>>
platform == <<tracksLive, ctxOpen>>
loop == <<awaiting, rafPending, rafRunning>>
iter == <<pc, task, iterArr, iterLen, iterIdx, iterShared>>
handles == <<regs, calls>>
publish == <<snap, got>>
session == <<stopReturned, succeeded, produced>>
counters == <<ops, grants, frame>>
observed == <<lastValue, returned, analysis>>
vars == <<service, platform, loop, iter, handles, publish, session, counters, observed,
          page>>

\* the page before it is mounted: the initial values of its useState calls
VisualizerPage ==
    [mounted |-> FALSE, initAudio |-> "none", isInitialized |-> FALSE, sensitivity |-> 7,
     error |-> FALSE, subscription |-> 0, left |-> "no"]

Init ==
    /\ isInitialized = FALSE
    /\ stream = 0
    /\ audioContext = 0
    /\ analyzer = 0
    /\ sensitivity = defaultSensitivity
    /\ listeners = <<>>
    /\ currentMood = "calm"
    /\ moodChangeTime = 0
    /\ tracksLive = {}
    /\ ctxOpen = {}
    /\ awaiting = 0
    /\ rafPending = 0
    /\ rafRunning = 0
    /\ pc = "idle"
    /\ task = "none"
    /\ iterArr = <<>>
    /\ iterLen = 0
    /\ iterIdx = 0
    /\ iterShared = FALSE
    /\ regs = <<>>
    /\ calls = <<>>
    /\ snap = <<>>
    /\ got = <<>>
    /\ stopReturned = FALSE
    /\ succeeded = FALSE
    /\ produced = 0
    /\ ops = 0
    /\ grants = 0
    /\ frame = 0
    /\ lastValue = <<>>
    /\ returned = "none"
    /\ analysis = <<>>
    /\ page = VisualizerPage

\* no task of the service is running: a new task may start
Idle == pc = "idle" /\ rafRunning = 0

\* one more call of a public method
Call == ops < MaxOps /\ ops' = ops + 1

RegsOf(ls) == [i \in 1..Len(ls) |-> ls[i].reg]

\* the task's locals are gone when it ends
TaskEnds ==
    /\ pc' = "idle"
    /\ task' = "none"
    /\ iterArr' = <<>>
    /\ iterLen' = 0
    /\ iterIdx' = 0
    /\ iterShared' = FALSE
    /\ snap' = <<>>
    /\ got' = <<>>

\* ------------------------------------------------- subscribe / unsubscribe
\* this.listeners.push(callback): the array object is mutated in place
Pushed(ls, callback, h) == Append(ls, [cb |-> callback, reg |-> h])

\* this.listeners.filter((listener) => listener !== callback): a new array
Filtered(ls, callback) == SelectSeq(ls, LAMBDA l : l.cb # callback)

SubscribeEffect(callback) ==
    /\ Call
    /\ listeners' = Pushed(listeners, callback, Len(regs) + 1)
    /\ regs' = Append(regs, callback)
    /\ calls' = Append(calls, 0)
    /\ UNCHANGED <<isInitialized, stream, audioContext, analyzer, sensitivity,
                   currentMood, moodChangeTime>>
    /\ UNCHANGED <<platform, loop, session, grants, frame, observed>>

UnsubscribeEffect(h) ==
    /\ Call
    /\ listeners' = Filtered(listeners, regs[h])
    /\ calls' = [calls EXCEPT ![h] = @ + 1]
    /\ regs' = regs
    /\ UNCHANGED <<isInitialized, stream, audioContext, analyzer, sensitivity,
                   currentMood, moodChangeTime>>
    /\ UNCHANGED <<platform, loop, session, grants, frame, observed>>

Subscribe(callback) ==
    /\ Idle
    /\ SubscribeEffect(callback)
    /\ UNCHANGED <<iter, publish, page>>

Unsubscribe(h) ==
    /\ Idle
    /\ UnsubscribeEffect(h)
    /\ UNCHANGED <<iter, publish, page>>

\* ----------------------------------------------------------- setSensitivity
SetSensitivity(value) ==
    /\ Idle
    /\ Call
    /\ sensitivity' = Clamp01(value)
    /\ lastValue' = <<value>>
    /\ UNCHANGED <<returned, analysis>>
    /\ UNCHANGED <<isInitialized, stream, audioContext, analyzer, listeners,
                   currentMood, moodChangeTime>>
    /\ UNCHANGED <<platform, loop, iter, handles, publish, session, grants, frame>>

\* ------------------------------------------------------------------- stop
\* (variant: stop() also empties the registry)
StopEffect_ClearsListeners ==
    /\ Call
    /\ isInitialized' = FALSE
    /\ tracksLive' = IF stream # 0 THEN tracksLive \ {stream} ELSE tracksLive
    /\ ctxOpen' = IF audioContext # 0 THEN ctxOpen \ {audioContext} ELSE ctxOpen
    /\ stopReturned' = TRUE
    /\ listeners' = <<>>
    /\ UNCHANGED <<stream, audioContext, analyzer, sensitivity, currentMood, moodChangeTime>>
    /\ UNCHANGED <<loop, handles, succeeded, produced, grants, frame, observed>>

StopEffect ==
    /\ Call
    /\ isInitialized' = FALSE
    /\ tracksLive' = IF stream # 0 THEN tracksLive \ {stream} ELSE tracksLive
    /\ ctxOpen' = IF audioContext # 0 THEN ctxOpen \ {audioContext} ELSE ctxOpen
    /\ stopReturned' = TRUE
    /\ UNCHANGED <<stream, audioContext, analyzer, sensitivity, listeners,
                   currentMood, moodChangeTime>>
    /\ UNCHANGED <<loop, handles, succeeded, produced, grants, frame, observed>>

Stop ==
    /\ Idle
    /\ StopEffect
    /\ UNCHANGED <<iter, publish, page>>

\* ------------------------------------------------------------- initialize
\* (variant: no early return on an active session)
Initialize_NoGuard ==
    /\ Idle
    /\ Call
    /\ stopReturned' = FALSE
    /\ awaiting' = awaiting + 1
    /\ returned' = returned
    /\ UNCHANGED <<lastValue, analysis>>
    /\ UNCHANGED <<service, platform, rafPending, rafRunning, iter, handles, publish,
                   succeeded, produced, grants, frame>>

\* the call, up to `await getUserMedia`
Initialize ==
    /\ Idle
    /\ Call
    /\ stopReturned' = FALSE
    /\ awaiting' = IF isInitialized THEN awaiting ELSE awaiting + 1
    /\ returned' = IF isInitialized THEN "true" ELSE returned
    /\ UNCHANGED <<lastValue, analysis>>
    /\ UNCHANGED <<service, platform, rafPending, rafRunning, iter, handles, publish,
                   succeeded, produced, grants, frame>>

\* getUserMedia rejects: the catch block returns false
GetUserMediaRejected ==
    /\ Idle
    /\ awaiting > 0
    /\ awaiting' = awaiting - 1
    /\ returned' = "false"
    /\ UNCHANGED <<service, platform, rafPending, rafRunning, iter, handles, publish,
                   session, counters, lastValue, analysis, page>>

\* analyzeAudio, from its guard to the start of notifyListeners' forEach
AnalyzeBegin(t) ==
    \E dataArray \in Frames, now \in ClockReadings :
        LET features == extractAudioFeatures(dataArray, sensitivity)
            moodResult == detectMood(features, currentMood, moodChangeTime, now)
        IN  /\ currentMood' = moodResult.mood
            /\ moodChangeTime' = moodResult.time
            /\ pc' = "notify"
            /\ task' = t
            /\ iterArr' = listeners
            /\ iterLen' = Len(listeners)
            /\ iterIdx' = 0
            /\ iterShared' = TRUE
            /\ snap' = RegsOf(listeners)
            /\ got' = <<>>

\* (variant: the session is marked active before the set-up is complete)
InitializeFails_Activates(at) ==
    /\ Idle
    /\ awaiting > 0
    /\ awaiting' = awaiting - 1
    /\ grants' = grants + 1
    /\ stream' = grants + 1
    /\ tracksLive' = tracksLive \cup {grants + 1}
    /\ IF at = "source"
       THEN audioContext' = grants + 1 /\ ctxOpen' = ctxOpen \cup {grants + 1}
       ELSE audioContext' = audioContext /\ ctxOpen' = ctxOpen
    /\ isInitialized' = TRUE
    /\ returned' = "false"
    /\ UNCHANGED <<analyzer, sensitivity, listeners, currentMood, moodChangeTime>>
    /\ UNCHANGED <<rafPending, rafRunning, iter, handles, publish, session, ops, frame,
                   lastValue, analysis, page>>

\* getUserMedia resolves and a later statement of the try block throws:
\* "context": new AudioContext(); "source": createMediaStreamSource
InitializeFails(at) ==
    /\ Idle
    /\ awaiting > 0
    /\ awaiting' = awaiting - 1
    /\ grants' = grants + 1
    /\ stream' = grants + 1
    /\ tracksLive' = tracksLive \cup {grants + 1}
    /\ IF at = "source"
       THEN audioContext' = grants + 1 /\ ctxOpen' = ctxOpen \cup {grants + 1}
       ELSE audioContext' = audioContext /\ ctxOpen' = ctxOpen
    /\ UNCHANGED <<isInitialized, analyzer, sensitivity, listeners, currentMood, moodChangeTime>>
    /\ returned' = "false"
    /\ UNCHANGED <<rafPending, rafRunning, iter, handles, publish, session, ops, frame,
                   lastValue, analysis, page>>

\* getUserMedia resolves and the set-up goes through: startAnalysisLoop calls
\* analyzeAudio() at once, still inside the try block
InitializeResumes ==
    /\ Idle
    /\ awaiting > 0
    /\ awaiting' = awaiting - 1
    /\ grants' = grants + 1
    /\ stream' = grants + 1
    /\ tracksLive' = tracksLive \cup {grants + 1}
    /\ audioContext' = grants + 1
    /\ ctxOpen' = ctxOpen \cup {grants + 1}
    /\ analyzer' = grants + 1
    /\ isInitialized' = TRUE
    /\ succeeded' = TRUE
    /\ AnalyzeBegin("init")
    /\ UNCHANGED <<sensitivity, listeners, rafPending, rafRunning, handles,
                   stopReturned, produced, ops, frame, observed, page>>

\* -------------------------------------------------------- animation frames
\* the browser starts an animation frame: it will run the callbacks queued so far
AnimationFrame ==
    /\ Idle
    /\ rafPending > 0
    /\ frame < MaxFrames
    /\ frame' = frame + 1
    /\ rafRunning' = rafPending
    /\ rafPending' = 0
    /\ produced' = 0
    /\ UNCHANGED <<service, platform, awaiting, iter, handles, publish,
                   stopReturned, succeeded, ops, grants, observed, page>>

\* one queued analyzeAudio callback runs
Tick ==
    /\ pc = "idle"
    /\ rafRunning > 0
    /\ rafRunning' = rafRunning - 1
    /\ IF isInitialized
       THEN /\ AnalyzeBegin("raf")
            /\ produced' = produced + 1
       ELSE UNCHANGED <<currentMood, moodChangeTime, iter, publish, produced>>
    /\ UNCHANGED <<isInitialized, stream, audioContext, analyzer, sensitivity, listeners>>
    /\ UNCHANGED <<platform, awaiting, rafPending, handles,
                   stopReturned, succeeded, counters, observed, page>>

\* --------------------------------------------------------- notifyListeners
\* forEach invokes the listener at the next index; what the listener does is
\* its own code: return, throw, or call back into the service
Invoked ==
    /\ pc = "notify"
    /\ iterIdx < iterLen
    /\ got' = Append(got, iterArr[iterIdx + 1].reg)
    /\ snap' = snap
    /\ UNCHANGED <<task, iterLen>>

Deliver(does, callback, h) ==
    /\ Invoked
    /\ page' = page
    /\ CASE does = "return" ->
              /\ pc' = pc
              /\ iterIdx' = iterIdx + 1
              /\ UNCHANGED <<service, platform, loop, iterArr, iterShared, handles,
                             session, counters, observed>>
         [] does = "throw" ->
              \* the exception leaves forEach, notifyListeners and analyzeAudio
              /\ pc' = "thrown"
              /\ iterIdx' = iterIdx
              /\ UNCHANGED <<service, platform, loop, iterArr, iterShared, handles,
                             session, counters, observed>>
         [] does = "stop" ->
              /\ pc' = pc
              /\ iterIdx' = iterIdx + 1
              /\ StopEffect
              /\ UNCHANGED <<iterArr, iterShared>>
         [] does = "subscribe" ->
              /\ pc' = pc
              /\ iterIdx' = iterIdx + 1
              /\ SubscribeEffect(callback)
              /\ iterArr' = IF iterShared THEN Pushed(iterArr, callback, Len(regs) + 1)
                            ELSE iterArr
              /\ iterShared' = iterShared
         [] does = "unsubscribe" ->
              /\ pc' = pc
              /\ iterIdx' = iterIdx + 1
              /\ UnsubscribeEffect(h)
              /\ iterShared' = FALSE
              /\ iterArr' = iterArr

\* forEach is over: requestAnimationFrame(analyzeAudio); in initialize, return true
NotifyDone ==
    /\ pc = "notify"
    /\ iterIdx = iterLen
    /\ rafPending' = rafPending + 1
    /\ returned' = IF task = "init" THEN "true" ELSE returned
    /\ TaskEnds
    /\ UNCHANGED <<service, platform, awaiting, rafRunning, handles, session, counters,
                   lastValue, analysis, page>>

\* the exception reaches the end of the task: requestAnimationFrame was not
\* reached; in initialize the catch block returns false, in an animation-frame
\* callback the exception is uncaught
Unwind ==
    /\ pc = "thrown"
    /\ returned' = IF task = "init" THEN "false" ELSE returned
    /\ TaskEnds
    /\ UNCHANGED <<service, platform, loop, handles, session, counters,
                   lastValue, analysis, page>>

Next ==
    \/ Initialize /\ UNCHANGED page
    \/ GetUserMediaRejected
    \/ \E at \in {"context", "source"} : InitializeFails(at)
    \/ InitializeResumes
    \/ Stop
    \/ \E callback \in Callbacks : Subscribe(callback)
    \/ \E h \in 1..Len(regs) : Unsubscribe(h)
    \/ \E value \in SensitivityInputs : SetSensitivity(value) /\ UNCHANGED page
    \/ AnimationFrame
    \/ Tick
    \/ \E does \in {"return", "throw", "stop"} : Deliver(does, "f", 0)
    \/ \E callback \in Callbacks : Deliver("subscribe", callback, 0)
    \/ \E h \in 1..Len(regs) : Deliver("unsubscribe", "f", h)
    \/ NotifyDone
    \/ Unwind

Spec == Init /\ [][Next]_vars

\* ====================================================== the frame pipeline
\* The pipeline of analyzeAudio on its own: an active session with one
\* listener that returns normally, in which every run of analyzeAudio is one
\* step and the gain is set between runs.

\* frames of a four-bin analyser (fftSize 8) and readings of Date.now()
FrameInputs ==
    {<<0, 0, 0, 0>>, <<255, 255, 0, 0>>, <<255, 255, 255, 255>>, <<60, 60, 60, 60>>,
     <<0, 0, 100, 200>>, <<40, 40, 0, 0>>, <<255, 3, 3, 3>>, <<129, 128, 129, 128>>}
ClockInputs == {1000, 1050, 1100, 1101}
\* what the analyser may hold when calculateDominantFrequency reads it again:
\* the frame the features were taken from, or a later one
SecondReads == {<<7, 200, 200, 9>>}
SampleRates == {44100, 48000}
\* arguments of setSensitivity, in tenths
GainInputs == {-5, 3, 15}

\* this.extractAudioFeatures(dataArray, bufferLength, noiseFloor) for every
\* frame and every stored gain, computed once
FeatureTable == [dataArray \in FrameInputs |->
                    [g \in 0..10 |-> extractAudioFeatures(dataArray, g)]]

\* subscribe("f") was called, and initialize() has set isInitialized and is
\* about to call startAnalysisLoop
FrameInit ==
    /\ isInitialized = TRUE
    /\ stream = 1
    /\ audioContext = 1
    /\ analyzer = 1
    /\ sensitivity = defaultSensitivity
    /\ listeners = <<[cb |-> "f", reg |-> 1]>>
    /\ currentMood = "calm"
    /\ moodChangeTime = 0
    /\ tracksLive = {1}
    /\ ctxOpen = {1}
    /\ awaiting = 0
    /\ rafPending = 0
    /\ rafRunning = 0
    /\ pc = "idle"
    /\ task = "none"
    /\ iterArr = <<>>
    /\ iterLen = 0
    /\ iterIdx = 0
    /\ iterShared = FALSE
    /\ regs = <<"f">>
    /\ calls = <<0>>
    /\ snap = <<>>
    /\ got = <<>>
    /\ stopReturned = FALSE
    /\ succeeded = TRUE
    /\ produced = 0
    /\ ops = 2
    /\ grants = 1
    /\ frame = 0
    /\ lastValue = <<>>
    /\ returned = "none"
    /\ analysis = <<>>
    /\ page = VisualizerPage

\* one run of analyzeAudio: the frame is read, the features are extracted at
\* the current gain, the mood is classified at the reading `now` of the
\* clock, the analyser is read again for the dominant frequency, the result
\* is handed to every listener of the registry, each of which returns, and
\* the next run is requested
AnalyzeFrame ==
    \E dataArray \in FrameInputs, now \in ClockInputs, sampleRate \in SampleRates :
        \E freqData \in {dataArray} \cup SecondReads :
            LET features == FeatureTable[dataArray][sensitivity]
                detectedMood == DetectedMood(features, currentMood)
                classifier == detectMood(features, currentMood, moodChangeTime, now)
                moodResult == MoodReturned(classifier, detectedMood)
                dominantFrequency ==
                    calculateDominantFrequency(analyzer, audioContext, freqData, sampleRate)
            IN  /\ Idle
                /\ isInitialized
                /\ currentMood' = classifier.mood
                /\ moodChangeTime' = classifier.time
                /\ rafPending' = 1
                /\ analysis' = <<[prior |-> [mood |-> currentMood, time |-> moodChangeTime],
                                  dataArray |-> dataArray,
                                  gain |-> sensitivity,
                                  now |-> now,
                                  freqData |-> freqData,
                                  sampleRate |-> sampleRate,
                                  detectedMood |-> detectedMood,
                                  result |-> [mood |-> moodResult.mood,
                                              moodConfidence |-> moodResult.confidence,
                                              features |-> features,
                                              dominantFrequency |-> dominantFrequency],
                                  deliveredTo |-> RegsOf(listeners)]>>
                /\ UNCHANGED <<isInitialized, stream, audioContext, analyzer, sensitivity,
                               listeners>>
                /\ UNCHANGED <<platform, awaiting, rafRunning, iter, handles, publish,
                               session, counters, lastValue, returned, page>>

\* setSensitivity between two runs
SetGain(value) ==
    /\ Idle
    /\ sensitivity' = Clamp01(value)
    /\ lastValue' = <<value>>
    /\ UNCHANGED <<isInitialized, stream, audioContext, analyzer, listeners,
                   currentMood, moodChangeTime>>
    /\ UNCHANGED <<platform, loop, iter, handles, publish, session, counters,
                   returned, analysis, page>>

FrameNext ==
    \/ AnalyzeFrame
    \/ \E value \in GainInputs : SetGain(value)

FrameSpec == FrameInit /\ [][FrameNext]_vars

\* ------------------------------------------------------- the visualizer page
\* The page as the only client of the service: it is mounted once, its
\* effect calls initAudio, the slider is moved, and the Back button takes
\* the browser to another route, which unmounts it.

\* values of the range input (min 0, max 1, step 0.1), in tenths
SliderInputs == {0, 3, 10}

\* initAudio is not at a continuation that is due: the code after
\* `await audioService.initialize()` runs as a microtask, before any other
\* task, once the call has returned
PageSettled == ~(page.initAudio = "awaiting" /\ awaiting = 0 /\ pc = "idle")

\* the mount effect: initAudio() runs up to `await audioService.initialize()`.
\* The effect itself returns nothing.
PageMount ==
    /\ ~page.mounted
    /\ page.left = "no"
    /\ Initialize
    /\ page' = [page EXCEPT !.mounted = TRUE, !.initAudio = "awaiting"]

\* initialize() returned true: setIsInitialized(true) and subscribe.  The
\* function that initAudio returns here goes to the promise of initAudio(),
\* which nobody reads
PageSubscribes ==
    /\ ~PageSettled
    /\ returned = "true"
    /\ SubscribeEffect("f")
    /\ page' = [page EXCEPT !.initAudio = "done", !.isInitialized = TRUE,
                            !.subscription = Len(regs) + 1]
    /\ UNCHANGED <<iter, publish>>

\* initialize() returned false: setError
PageInitFailed ==
    /\ ~PageSettled
    /\ returned = "false"
    /\ page' = [page EXCEPT !.initAudio = "done", !.error = TRUE]
    /\ UNCHANGED <<service, platform, loop, iter, handles, publish, session, counters,
                   observed>>

\* handleSensitivityChange
PageSlider(value) ==
    /\ page.mounted
    /\ PageSettled
    /\ SetSensitivity(value)
    /\ page' = [page EXCEPT !.sensitivity = value]

\* handleBack: router.push("/") unmounts the page.  React runs the cleanup
\* functions that the effects returned: the mount effect returned none
PageUnmount ==
    /\ page.mounted
    /\ PageSettled
    /\ Idle
    /\ page' = [page EXCEPT !.mounted = FALSE,
                            !.left = IF page.isInitialized THEN "after" ELSE "early"]
    /\ UNCHANGED <<service, platform, loop, iter, handles, publish, session, counters,
                   observed>>

PageNext ==
    \/ PageMount
    \/ GetUserMediaRejected
    \/ \E at \in {"context", "source"} : InitializeFails(at)
    \/ InitializeResumes
    \/ PageSubscribes
    \/ PageInitFailed
    \/ \E value \in SliderInputs : PageSlider(value)
    \/ PageUnmount
    \/ PageSettled /\ AnimationFrame
    \/ PageSettled /\ Tick
    \/ Deliver("return", "f", 0)
    \/ NotifyDone

PageSpec == Init /\ [][PageNext]_vars

\* ================================================================ claims

\* the analyzeAudio callbacks that are queued or running: the analysis loops
Loops == rafPending + rafRunning + (IF pc # "idle" /\ task = "raf" THEN 1 ELSE 0)

\* a publish has ended: forEach ran to its end, or an exception left it
PublishEnded == (pc = "notify" /\ iterIdx = iterLen) \/ pc = "thrown"

\* C1: when a callback throws during a publish, every subscriber registered
\* after it still receives the result of that frame.  (At pc = "thrown" the
\* exception has left forEach; the thrower is snap[iterIdx + 1].)
C1_SubscriberIsolation ==
    pc = "thrown" =>
        \A k \in (iterIdx + 2)..Len(snap) : \E j \in 1..Len(got) : got[j] = snap[k]

\* C2: a subscriber failure does not end the pipeline: whenever the session
\* is active and no task is running, the analysis loop has its next tick
\* scheduled.
C2_LoopSurvivesFailure ==
    (isInitialized /\ pc = "idle") => rafPending + rafRunning >= 1

\* C3: once stop() has returned, no subscriber callback is invoked unless
\* initialize() is called again afterwards.
C3_NoDeliveryAfterStop ==
    [][Len(got') > Len(got) => ~stopReturned]_vars

\* C4: at most one analysis loop is ever scheduled, so an animation frame
\* produces at most one result.
C4_OneResultPerFrame ==
    produced <= 1 /\ Loops <= 1

\* C5: the second and every later invocation of one unsubscribe handle
\* leaves the registry unchanged.
C5_UnsubscribeIdempotent ==
    [][\A h \in 1..Len(calls) :
          (calls[h] >= 1 /\ calls'[h] > calls[h]) => listeners' = listeners]_vars

\* C6: the first invocation of the handle of subscribe call h removes the
\* registration that call created and nothing else, the rest keeping its order.
C6_UnsubscribeExact ==
    [][\A h \in 1..Len(calls) :
          (calls[h] = 0 /\ calls'[h] > calls[h]) =>
              listeners' = SelectSeq(listeners, LAMBDA l : l.reg # h)]_vars

\* C7: a publish delivers to exactly the callbacks that were registered when
\* it began, in subscription order, whatever the callbacks subscribe or
\* unsubscribe meanwhile.
C7_SnapshotDelivery ==
    PublishEnded =>
        /\ got = snap
        /\ \A i, j \in 1..Len(got) : i < j => got[i] < got[j]

\* C8: a session started by an initialize() call (the last stop(), if any,
\* came before that call) starts from the default classifier state: the
\* frame classified in the step that sets isInitialized starts from calm
\* and the default transition time 0.
C8_RestartResetsClassifier ==
    [][(~isInitialized /\ isInitialized' /\ ~stopReturned) =>
          (currentMood = "calm" /\ moodChangeTime = 0)]_vars

\* C9: stop() before any initialize() has succeeded changes no state, and a
\* second stop() right after a stop() changes nothing more (the state stop()
\* leaves is one stop() does not change).
C9_StopSafeAndIdempotent ==
    [][StopEffect =>
          /\ (~succeeded => UNCHANGED <<service, platform>>)
          /\ ~isInitialized'
          /\ stream' \notin tracksLive'
          /\ audioContext' \notin ctxOpen']_vars

\* C10: once stop() has returned and initialize() was not called since, no
\* microphone track is live and no audio context is open.
C10_StopReleasesCapture ==
    stopReturned => (tracksLive = {} /\ ctxOpen = {})


\* an initialize() call resumes and ends without an analyser: the
\* microphone or the audio context could not be acquired
AcquisitionFails == awaiting' < awaiting /\ analyzer' = analyzer

CandidateChange(a) == a.detectedMood # a.prior.mood

\* the recorded run committed a change of mood
Committed(a) == a.result.mood # a.prior.mood

\* C11, as stated, last part: of two candidate changes fired less than the
\* threshold apart, only the first is committed; in its weakest reading, the
\* second of them is not committed.  (Two runs in a row, the second read
\* less than the threshold after the first.)
C11_OnlyFirstCommitted ==
    [][(/\ analysis # <<>>
        /\ analysis' # analysis
        /\ CandidateChange(analysis[1])
        /\ CandidateChange(analysis'[1])
        /\ analysis'[1].now >= analysis[1].now
        /\ analysis'[1].now - analysis[1].now < moodChangeThreshold)
          => ~Committed(analysis'[1])]_vars

\* C11, amended: a candidate that differs from the current mood is committed
\* (mood and timestamp both updated) exactly when the reading of the clock
\* is more than the threshold after the last committed transition, and
\* otherwise mood and timestamp are both unchanged; hence a committed change
\* is more than the threshold after the one before it, and of two candidate
\* changes fired less than the threshold apart at most one is committed: the
\* second is never committed when the first was.
C11_Debounce ==
    /\ [](analysis # <<>> =>
            LET a == analysis[1]
            IN  /\ IF CandidateChange(a) /\ a.now - a.prior.time > 100
                   THEN currentMood = a.detectedMood /\ moodChangeTime = a.now
                   ELSE currentMood = a.prior.mood /\ moodChangeTime = a.prior.time
                /\ moodChangeTime # a.prior.time => moodChangeTime - a.prior.time > 100)
    /\ [][(/\ analysis # <<>>
           /\ analysis' # analysis
           /\ CandidateChange(analysis'[1])
           /\ Committed(analysis[1])
           /\ analysis'[1].now - analysis[1].now < 100)
             => ~Committed(analysis'[1])]_vars

\* a candidate change read 50 ms after a committed one was turned down
C11_Witness ==
    /\ analysis # <<>>
    /\ CandidateChange(analysis[1])
    /\ analysis[1].prior.time = 1000
    /\ analysis[1].now = 1050
    /\ currentMood = analysis[1].prior.mood
    /\ moodChangeTime = 1000

\* C12: the candidate mood is the first match of the priority table over
\* energy, zcr, spectralCentroid and spectralFlatness: energy < 0.03 -> the
\* current mood; energy > 0.3 and zcr > 0.2 -> energetic; energy > 0.2 and
\* centroid > 0.3 -> happy; flatness > 0.15 and energy < 0.15 -> melancholic;
\* otherwise calm.  No other feature enters.
C12_PriorityTable ==
    analysis # <<>> =>
        LET a == analysis[1]
            f == a.result.features
            silent == FracLt(f.energy, 3, 100)
            energetic == FracGt(f.energy, 3, 10) /\ FracGt(f.zcr, 2, 10)
            happy == FracGt(f.energy, 2, 10) /\ FracGt(f.spectralCentroid, 3, 10)
            melancholic == FlatnessGt(f.spectralFlatness, 3, 20) /\ FracLt(f.energy, 15, 100)
        IN  /\ silent => a.detectedMood = a.prior.mood
            /\ (~silent /\ energetic) => a.detectedMood = "energetic"
            /\ (~silent /\ ~energetic /\ happy) => a.detectedMood = "happy"
            /\ (~silent /\ ~energetic /\ ~happy /\ melancholic)
                   => a.detectedMood = "melancholic"
            /\ (~silent /\ ~energetic /\ ~happy /\ ~melancholic) => a.detectedMood = "calm"

\* a frame that matches the rule of energetic and the rule of happy
C12_Witness ==
    /\ analysis # <<>>
    /\ analysis[1].detectedMood = "energetic"
    /\ FracGt(analysis[1].result.features.energy, 3, 10)
    /\ FracGt(analysis[1].result.features.zcr, 2, 10)
    /\ FracGt(analysis[1].result.features.spectralCentroid, 3, 10)

\* C13: the stored gain is always within [0, 1]: it is the configured default
\* before any setSensitivity call, and after a call the argument of the most
\* recent call clamped to [0, 1].
C13_SensitivityClamped ==
    /\ sensitivity \in 0..10
    /\ lastValue = <<>> => sensitivity = defaultSensitivity
    /\ lastValue # <<>> =>
          sensitivity = (IF lastValue[1] < 0 THEN 0
                         ELSE IF lastValue[1] > 10 THEN 10 ELSE lastValue[1])

\* a frame was analysed at a gain that setSensitivity(-0.5) left at 0
C13_Witness ==
    /\ lastValue = <<-5>>
    /\ sensitivity = 0
    /\ analysis # <<>>
    /\ analysis[1].gain = 0

\* C15: the timestamp of the last transition never decreases, whatever the
\* clock reads (a reading earlier than the last transition included).
C15_TimestampMonotonic ==
    [][moodChangeTime' >= moodChangeTime]_vars

\* a candidate change was read at a clock reading earlier than the last transition
C15_Witness ==
    /\ analysis # <<>>
    /\ CandidateChange(analysis[1])
    /\ analysis[1].now < analysis[1].prior.time
    /\ moodChangeTime = analysis[1].prior.time

\* C16: a frame whose energy is below 0.03 changes neither the mood nor the
\* timestamp of the last transition, and the mood it reports is the mood
\* before the frame.
C16_SilenceStays ==
    (analysis # <<>> /\ FracLt(analysis[1].result.features.energy, 3, 100)) =>
        /\ currentMood = analysis[1].prior.mood
        /\ moodChangeTime = analysis[1].prior.time
        /\ analysis[1].result.mood = analysis[1].prior.mood

\* a silent frame long after the transition to a mood other than calm
C16_Witness ==
    /\ analysis # <<>>
    /\ FracLt(analysis[1].result.features.energy, 3, 100)
    /\ analysis[1].prior.mood = "energetic"
    /\ analysis[1].now - analysis[1].prior.time > 100
    /\ currentMood = "energetic"

\* C17: the dominant frequency is k * sampleRate / (2 * fftSize), k being the
\* lowest index among the bins that hold the maximum of the frame read (0
\* for an all-zero frame); it is 0 when there is no analyser.
C17_DominantFrequency ==
    /\ analysis # <<>> =>
          LET a == analysis[1]
              bins == 1..Len(a.freqData)
              top == {i \in bins : \A j \in bins : a.freqData[j] <= a.freqData[i]}
              k == (CHOOSE i \in top : \A j \in top : i <= j) - 1
              hz == a.result.dominantFrequency
          IN  /\ hz.d > 0
              /\ hz.n * (2 * FftSize(a.freqData)) = k * a.sampleRate * hz.d
              /\ (\A i \in bins : a.freqData[i] = 0) => hz.n = 0
    /\ \A dataArray \in FrameInputs \cup SecondReads, sampleRate \in SampleRates :
          calculateDominantFrequency(0, audioContext, dataArray, sampleRate).n = 0

\* a frame whose maximum is held by bins 1 and 2: 1 * 44100 / 16 Hz
C17_Witness ==
    /\ analysis # <<>>
    /\ analysis[1].freqData = <<7, 200, 200, 9>>
    /\ analysis[1].sampleRate = 44100
    /\ analysis[1].result.dominantFrequency = [n |-> 44100, d |-> 16]

\* C18: for one frame the energy does not decrease when the gain increases,
\* over the gains in [0, 1], and it lies in [0, 1].
C18_EnergyMonotonic ==
    analysis # <<>> =>
        LET a == analysis[1]
            e == a.result.features.energy
        IN  /\ 0 <= e.n /\ e.n <= e.d
            /\ \A g \in 0..10 :
                  LET other == Energy(a.dataArray, g)
                  IN  /\ other.d = e.d
                      /\ 0 <= other.n /\ other.n <= other.d
                      /\ g <= a.gain => other.n <= e.n
                      /\ g >= a.gain => other.n >= e.n
            /\ \A g1, g2 \in 0..10 :
                  g1 <= g2 => Energy(a.dataArray, g1).n <= Energy(a.dataArray, g2).n

\* a frame analysed at gain 0.3 whose energy is above the one at gain 0 and
\* below the one at gain 1
C18_Witness ==
    /\ analysis # <<>>
    /\ analysis[1].gain = 3
    /\ Energy(analysis[1].dataArray, 0).n < analysis[1].result.features.energy.n
    /\ analysis[1].result.features.energy.n < Energy(analysis[1].dataArray, 10).n

\* C19: energy = min(1, max(0, mean - 0.03) * 2 * g), mean being the sum of
\* the bins over 255 N; the frame whose lower half is 255 and upper half 0 has
\* energy 0.94 at gain 1.  (over = (mean - 0.03) * 255 N * 100.)
C19_EnergyFormula ==
    analysis # <<>> =>
        LET a == analysis[1]
            N == Len(a.dataArray)
            sum == SumUpTo(a.dataArray, N)
            over == 100 * sum - 3 * 255 * N
            e == a.result.features.energy
        IN  /\ e.d = 255 * N * 100 * 10
            /\ over <= 0 => e.n = 0
            /\ (over > 0 /\ over * 2 * a.gain >= e.d) => e.n = e.d
            /\ (over > 0 /\ over * 2 * a.gain < e.d) => e.n = over * 2 * a.gain
            /\ (/\ a.gain = 10
                /\ \A i \in 1..N : a.dataArray[i] = (IF 2 * (i - 1) < N THEN 255 ELSE 0))
                  => e.n * 100 = 94 * e.d

\* the half-saturated frame analysed at gain 1: energy 0.94
C19_Witness ==
    /\ analysis # <<>>
    /\ analysis[1].dataArray = <<255, 255, 0, 0>>
    /\ analysis[1].gain = 10
    /\ analysis[1].result.features.energy.n * 100 = 94 * analysis[1].result.features.energy.d

\* C20: for a frame whose every bin is 0, at every gain, energy, rms, zcr,
\* spectralCentroid, spectralFlatness and spectralRolloff are 0.  (The
\* flatness is 0 exactly when no bin qualifies; the rms is 0 exactly when
\* its square is.)
C20_AllZeroFrame ==
    (analysis # <<>> /\ \A i \in 1..Len(analysis[1].dataArray) : analysis[1].dataArray[i] = 0) =>
        LET f == analysis[1].result.features
        IN  /\ f.energy.n = 0 /\ f.energy.d > 0
            /\ f.rmsSquared.n = 0 /\ f.rmsSquared.d > 0
            /\ f.zcr.n = 0 /\ f.zcr.d > 0
            /\ f.spectralCentroid.n = 0 /\ f.spectralCentroid.d > 0
            /\ f.spectralFlatness.cnt = 0
            /\ f.spectralRolloff.n = 0 /\ f.spectralRolloff.d > 0

\* the all-zero frame analysed at gain 1
C20_Witness ==
    /\ analysis # <<>>
    /\ analysis[1].dataArray = <<0, 0, 0, 0>>
    /\ analysis[1].gain = 10
    /\ analysis[1].result.features.energy.n = 0

\* a frame whose every bin is 255
Saturated(dataArray) == \A i \in 1..Len(dataArray) : dataArray[i] = 255

\* C21 as stated: for a frame whose every bin is 255 the 85% threshold is
\* reached within the first bins and spectralRolloff is small (close to 0):
\* here, below one half.
C21_SaturatedRolloffSmall ==
    (analysis # <<>> /\ Saturated(analysis[1].dataArray)) =>
        analysis[1].result.features.spectralRolloff.n * 2
            < analysis[1].result.features.spectralRolloff.d

\* C21, amended: for a frame whose every bin is 255 the cumulative sum
\* reaches 85% of the total only at bin ceil(0.85 N) - 1, so spectralRolloff
\* is (ceil(0.85 N) - 1) / N: the bins up to and including the rolloff bin
\* are at least 85% of all bins, and the bins before it are fewer than 85%.
C21_SaturatedRolloff ==
    (analysis # <<>> /\ Saturated(analysis[1].dataArray)) =>
        LET r == analysis[1].result.features.spectralRolloff
        IN  /\ r.d = Len(analysis[1].dataArray)
            /\ 100 * (r.n + 1) >= 85 * r.d
            /\ 100 * r.n < 85 * r.d

\* the saturated frame analysed: spectralRolloff 3/4
C21_Witness ==
    /\ analysis # <<>>
    /\ analysis[1].dataArray = <<255, 255, 255, 255>>
    /\ analysis[1].result.features.spectralRolloff = [n |-> 3, d |-> 4]

\* C23: with a non-zero total, spectralRolloff = i* / N for the smallest bin
\* index i* whose cumulative raw magnitude (bins 0 .. i*) is at least 85% of
\* the total; for the frame whose bins [0 .. N/2) are 255 and the rest 0, i*
\* lies in the first half.  (Bin i is element i + 1 of the sequence.)
C23_RolloffIndex ==
    (analysis # <<>> /\ SumUpTo(analysis[1].dataArray, Len(analysis[1].dataArray)) # 0) =>
        LET a == analysis[1]
            N == Len(a.dataArray)
            total == SumUpTo(a.dataArray, N)
            r == a.result.features.spectralRolloff
        IN  /\ r.d = N
            /\ r.n \in 0..(N - 1)
            /\ 100 * SumUpTo(a.dataArray, r.n + 1) >= 85 * total
            /\ \A i \in 0..(r.n - 1) : 100 * SumUpTo(a.dataArray, i + 1) < 85 * total
            /\ (\A i \in 1..N : a.dataArray[i] = (IF 2 * (i - 1) < N THEN 255 ELSE 0))
                  => 2 * r.n < N

\* the half-saturated frame analysed: i* = 1 of N = 4
C23_Witness ==
    /\ analysis # <<>>
    /\ analysis[1].dataArray = <<255, 255, 0, 0>>
    /\ analysis[1].result.features.spectralRolloff = [n |-> 1, d |-> 4]

\* C24: zcr is the number of adjacent pairs of bins on different sides of
\* the threshold over N, a bin being positive only when its raw value is
\* strictly greater than 128 (128 counts as negative); the saturated frame
\* has zcr 0; zcr never exceeds (N - 1) / N.
C24_ZeroCrossingRate ==
    analysis # <<>> =>
        LET a == analysis[1]
            N == Len(a.dataArray)
            z == a.result.features.zcr
            crossings == {i \in 1..(N - 1) :
                             (a.dataArray[i] > 128) # (a.dataArray[i + 1] > 128)}
        IN  /\ z.d = N
            /\ z.n = Cardinality(crossings)
            /\ z.n <= N - 1
            /\ Saturated(a.dataArray) => z.n = 0
            /\ a.dataArray = <<129, 128, 129, 128>> => z.n = 3

\* a frame alternating between 129 and 128 analysed: every pair crosses
C24_Witness ==
    /\ analysis # <<>>
    /\ analysis[1].dataArray = <<129, 128, 129, 128>>
    /\ analysis[1].result.features.zcr = [n |-> 3, d |-> 4]

C22_SameFrame ==
    (analysis # <<>> /\ Len(analysis[1].deliveredTo) > 0) =>
        LET a == analysis[1]
        IN  /\ a.result.features = FeatureTable[a.dataArray][a.gain]
            /\ a.result.dominantFrequency =
                   calculateDominantFrequency(analyzer, audioContext, a.dataArray, a.sampleRate)

\* C25: every delivered result has the four fields of AnalysisResult and the
\* six features (the rms is carried as its square); its mood is a MoodType
\* and is the current mood of the classifier after this frame's
\* classification; moodConfidence is 1.0; the mood is calm before the first
\* committed transition.
C25_ResultComplete ==
    (analysis # <<>> /\ Len(analysis[1].deliveredTo) > 0) =>
        LET a == analysis[1]
            r == a.result
        IN  /\ DOMAIN r = {"mood", "moodConfidence", "features", "dominantFrequency"}
            /\ DOMAIN r.features = {"energy", "rmsSquared", "zcr", "spectralCentroid",
                                    "spectralFlatness", "spectralRolloff"}
            /\ r.mood \in MoodType
            /\ r.mood = Debounced(a.detectedMood, a.prior.mood, a.prior.time, a.now).mood
            /\ r.mood = currentMood
            /\ r.moodConfidence = [n |-> 1, d |-> 1]
            /\ r.dominantFrequency.d > 0 /\ r.dominantFrequency.n >= 0
            /\ moodChangeTime = 0 => r.mood = "calm"

\* a delivered result of a frame whose candidate change the debounce turned
\* down: the mood delivered is the current mood, not the candidate
C25_Witness ==
    /\ analysis # <<>>
    /\ analysis[1].deliveredTo = <<1>>
    /\ analysis[1].detectedMood # analysis[1].prior.mood
    /\ analysis[1].result.mood = analysis[1].prior.mood
    /\ analysis[1].result.mood = currentMood
    /\ currentMood # "calm"

\* C26: frame conditions.  The mood and its timestamp change only in a run
\* of analyzeAudio, and a run of analyzeAudio from an animation frame changes
\* nothing else of the service; a change of the gain leaves the rest of the
\* service as it is, and so does a change of the registry; stop() leaves the
\* registry and the gain as they are.
C26_FrameConditions ==
    [][/\ (currentMood' # currentMood \/ moodChangeTime' # moodChangeTime)
            => (pc = "idle" /\ pc' = "notify")
       /\ (pc = "idle" /\ pc' = "notify" /\ task' = "raf")
            => UNCHANGED <<isInitialized, stream, audioContext, analyzer, sensitivity,
                           listeners, platform>>
       /\ (pc = "idle" /\ pc' = "notify")
            => UNCHANGED <<sensitivity, listeners>>
       /\ sensitivity' # sensitivity
            => UNCHANGED <<isInitialized, stream, audioContext, analyzer, listeners,
                           currentMood, moodChangeTime, platform>>
       /\ listeners' # listeners
            => UNCHANGED <<isInitialized, stream, audioContext, analyzer, sensitivity,
                           currentMood, moodChangeTime, platform>>
       /\ (StopEffect \/ (isInitialized /\ ~isInitialized'))
            => UNCHANGED <<listeners, sensitivity>>]_vars

\* a listener subscribed, the session was stopped and started again (the
\* first stream is released, the second is live), and the first result of
\* the new session has been handed to the listener
C26_Witness ==
    /\ isInitialized
    /\ tracksLive = {2} /\ stream = 2 /\ analyzer = 2
    /\ regs = <<"f">>
    /\ RegsOf(listeners) = <<1>>
    /\ pc = "notify"
    /\ got = <<1>>

\* C28: initialize() on an active session returns true and has no effect:
\* no second stream, context or loop, and the classifier, the gain and the
\* registry are as before.
C28_InitializeIdempotent ==
    [][(Initialize /\ isInitialized)
          => /\ returned' = "true"
             /\ UNCHANGED <<service, platform, loop, iter, handles, grants>>]_vars

\* initialize() has returned true on the session that the first call started
C28_Witness ==
    /\ isInitialized
    /\ returned = "true"
    /\ ops = 2
    /\ grants = 1 /\ tracksLive = {1} /\ ctxOpen = {1}
    /\ awaiting = 0
    /\ regs = <<>>
    /\ lastValue = <<>>
    /\ rafPending = 1

\* C29: a failed initialize() holds no resource: when the last initialize()
\* returned false, none has succeeded and none is pending, no track is live
\* and no context is open.
C29_FailedInitializeHoldsNothing ==
    (returned = "false" /\ ~succeeded /\ awaiting = 0) =>
        (tracksLive = {} /\ ctxOpen = {})

\* C30: once the audio initialisation has succeeded, unmounting the page
\* removes its subscription and stops the service: after the unmount the
\* page's callback is not in the registry and the service is not active.
C30_CleanupOnUnmount ==
    page.left = "after" =>
        /\ ~isInitialized
        /\ \A i \in 1..Len(listeners) : listeners[i].reg # page.subscription

\* C31: while the page is mounted, from its load onwards and after every
\* slider change, the sensitivity its slider shows is the gain the service
\* applies to the feature extraction.
C31_SliderShowsGain ==
    page.mounted => page.sensitivity = sensitivity

====
